---- MODULE Spec2Model ----
(***************************************************************************)
(* forego "start": the supervision and shutdown-coordination engine of     *)
(* src/start.go.  Strings are sequences of one-character strings.          *)
(***************************************************************************)
EXTENDS Integers, Sequences, FiniteSets, TLC

(* ------------------------------------------------------------------ *)
(* Bounds of the model                                                 *)
(* ------------------------------------------------------------------ *)

\* How many interrupts (ctrl-c) the operator sends during one run.
MaxInterrupts == 3

\* How many times one replica's process may exit on its own and be relaunched.
MaxRestarts == 1

\* Default of the -p flag.
DefaultPort == 5000

(* ------------------------------------------------------------------ *)
(* strings / strconv                                                   *)
(* ------------------------------------------------------------------ *)

Digits == <<"0", "1", "2", "3", "4", "5", "6", "7", "8", "9">>

IsDigit(c) == \E d \in 1..10 : Digits[d] = c

DigitVal(c) == (CHOOSE d \in 1..10 : Digits[d] = c) - 1

\* strings.TrimSpace, over the white space the inputs use.
IsSpace(c) == c \in {" ", "\t"}

RECURSIVE TrimLeft(_)
TrimLeft(s) ==
    IF s # <<>> /\ IsSpace(Head(s)) THEN TrimLeft(Tail(s)) ELSE s

RECURSIVE TrimRight(_)
TrimRight(s) ==
    IF s # <<>> /\ IsSpace(s[Len(s)]) THEN TrimRight(SubSeq(s, 1, Len(s) - 1)) ELSE s

TrimSpace(s) == TrimRight(TrimLeft(s))

\* strings.Contains(s, c) for a one-character c.
Contains(s, c) == \E k \in 1..Len(s) : s[k] = c

\* strings.Split(s, sep) for a one-character sep: always at least one part.
RECURSIVE SplitFrom(_, _, _)
SplitFrom(s, sep, cur) ==
    IF s = <<>> THEN <<cur>>
    ELSE IF Head(s) = sep THEN <<cur>> \o SplitFrom(Tail(s), sep, <<>>)
    ELSE SplitFrom(Tail(s), sep, Append(cur, Head(s)))

Split(s, sep) == SplitFrom(s, sep, <<>>)

RECURSIVE DecValue(_, _)
DecValue(s, acc) ==
    IF s = <<>> THEN acc ELSE DecValue(Tail(s), acc * 10 + DigitVal(Head(s)))

\* strconv.ParseInt(v, 10, 16): optional sign, then one or more digits, the
\* value within int16; anything else is an error.
ParseInt16(v) ==
    LET signed == v # <<>> /\ Head(v) \in {"+", "-"}
        body == IF signed THEN Tail(v) ELSE v
        neg == signed /\ Head(v) = "-"
    IN  IF body = <<>> \/ \E k \in 1..Len(body) : ~IsDigit(body[k])
        THEN [err |-> TRUE, n |-> 0]
        ELSE LET mag == DecValue(body, 0)
                 val == IF neg THEN 0 - mag ELSE mag
             IN  IF val < -32768 \/ val > 32767
                 THEN [err |-> TRUE, n |-> 0]
                 ELSE [err |-> FALSE, n |-> val]

\* strconv.Itoa
RECURSIVE NatToStr(_)
NatToStr(n) ==
    IF n < 10 THEN <<Digits[n + 1]>>
    ELSE Append(NatToStr(n \div 10), Digits[(n % 10) + 1])

Itoa(n) == IF n < 0 THEN <<"-">> \o NatToStr(0 - n) ELSE NatToStr(n)

(* ------------------------------------------------------------------ *)
(* parseConcurrency                                                    *)
(* ------------------------------------------------------------------ *)

\* map[string]int as a set of <<name, count>> pairs with unique names.
MapHas(m, k) == \E e \in m : e[1] = k

MapGet(m, k) == (CHOOSE e \in m : e[1] = k)[2]

MapPut(m, k, v) == {e \in m : e[1] # k} \cup {<<k, v>>}

\* The loop over parts: stops at the first bad part with what it has so far.
RECURSIVE ParseParts(_, _)
ParseParts(parts, concurrency) ==
    IF parts = <<>> THEN [err |-> FALSE, concurrency |-> concurrency]
    ELSE LET part == Head(parts) IN
         IF ~Contains(part, "=") THEN [err |-> TRUE, concurrency |-> concurrency]
         ELSE LET nameValue == Split(part, "=")
                  n == TrimSpace(nameValue[1])
                  v == TrimSpace(nameValue[2])
              IN  IF n = <<>> \/ v = <<>>
                  THEN [err |-> TRUE, concurrency |-> concurrency]
                  ELSE LET numProcs == ParseInt16(v) IN
                       IF numProcs.err
                       THEN [err |-> TRUE, concurrency |-> concurrency]
                       ELSE ParseParts(Tail(parts), MapPut(concurrency, n, numProcs.n))

parseConcurrency(value) ==
    IF TrimSpace(value) = <<>> THEN [err |-> FALSE, concurrency |-> {}]
    ELSE ParseParts(Split(value, ","), {})

(* ------------------------------------------------------------------ *)
(* Inputs of a run                                                     *)
(* ------------------------------------------------------------------ *)

web == <<"w", "e", "b">>

worker == <<"w", "o", "r", "k", "e", "r">>

api == <<"a", "p", "i">>

\* Values of the -c flag.
cEmpty == <<>>

cExample == <<"w","e","b","=","2",",","w","o","r","k","e","r","=","1">>

cSpacedZero == <<" ","w","e","b"," ","="," ","0"," ">>

cNegative == <<"w","e","b","=","-","1",",","w","o","r","k","e","r","=","2">>

cEmptyValue == <<"w","e","b","=",",","a","p","i","=","2">>

cNoEquals == <<"w","e","b">>

cNotANumber == <<"w","e","b","=","x">>

cEmptyName == <<"=","2">>

\* One run's inputs: the Procfile entries' names in order (pf.Entries), the -c
\* and -p flags, the optional process-name argument (args), and the platforms
\* (osHaveSigTerm) and -r flags the run is tried with.
Scenario(entries, c, a, port, platforms, restarts) ==
    [pf |-> entries, flagConcurrency |-> c, args |-> a, flagPort |-> port,
     platforms |-> platforms, restarts |-> restarts]

Scenarios ==
    { Scenario(<<web, worker>>, cExample, <<>>, DefaultPort, {FALSE}, {FALSE}),
      Scenario(<<web, worker>>, cEmpty, <<>>, DefaultPort, BOOLEAN, {FALSE}),
      Scenario(<<web, worker>>, cEmpty, <<>>, DefaultPort, {FALSE}, {TRUE}),
      Scenario(<<web, worker>>, cNegative, <<>>, 8080, {FALSE}, BOOLEAN),
      Scenario(<<web, worker>>, cSpacedZero, <<>>, 0, BOOLEAN, BOOLEAN),
      Scenario(<<web, worker>>, cExample, <<worker>>, 3000, BOOLEAN, BOOLEAN),
      Scenario(<<web, worker>>, cExample, <<web>>, DefaultPort, {TRUE}, {FALSE}),
      Scenario(<<web, worker>>, cEmpty, <<api>>, DefaultPort, BOOLEAN, BOOLEAN),
      Scenario(<<worker>>, cExample, <<>>, 65000, BOOLEAN, BOOLEAN),
      Scenario(<<web, worker>>, cEmptyValue, <<>>, DefaultPort, BOOLEAN, BOOLEAN),
      Scenario(<<web, worker>>, cNoEquals, <<>>, DefaultPort, BOOLEAN, BOOLEAN),
      Scenario(<<web, worker>>, cNotANumber, <<>>, DefaultPort, BOOLEAN, BOOLEAN),
      Scenario(<<web, worker>>, cEmptyName, <<>>, DefaultPort, {TRUE}, {FALSE}) }

VARIABLES
    flagRestart,      \* -r
    flagPort,         \* -p
    flagConcurrency,  \* -c
    osHaveSigTerm,    \* platform constant
    pf,               \* names of the Procfile entries, in order
    args,             \* command line arguments of start
    mainPc,           \* where runStart is
    concurrency,      \* parseConcurrency's map
    cur,              \* <<idx, i>>: the fan-out loops' next iteration
    shutdown,         \* Forego.shutdown (sync.Once): done?
    teardown,         \* Forego.teardown: closed?
    teardownNow,      \* Forego.teardownNow: closed?
    wg,               \* Forego.wg: the counter
    monitor,          \* monitorInterrupt: [listening, handler, first, once]
    procs,            \* replica <<idx, procNum>> -> its process and coordinator
    panicked,         \* a goroutine panicked (close of a closed channel)
    hist              \* what happened so far: counters the claims speak of

vars == <<flagRestart, flagPort, flagConcurrency, osHaveSigTerm, pf, args, mainPc,
          concurrency, cur, shutdown, teardown, teardownNow, wg, monitor, procs,
          panicked, hist>>

config == <<flagRestart, flagPort, flagConcurrency, osHaveSigTerm, pf, args>>

\* The program runs until runStart returns, a fatal error exits it, or it panics.
Running == mainPc \notin {"returned", "fatal"} /\ ~panicked

\* The state when runStart is entered.  hist counts the interrupts received,
\* the calls of SignalShutdown, the closes of the two barriers, the process
\* instances started and the coordinators completed; spawnedLate tells whether
\* an instance was started with the graceful barrier already closed.
Start ==
    /\ mainPc = "start"
    /\ concurrency = {}
    /\ cur = <<0, 0>>
    /\ shutdown = FALSE
    /\ teardown = FALSE
    /\ teardownNow = FALSE
    /\ wg = 0
    /\ monitor = [listening |-> FALSE, handler |-> 0, first |-> TRUE, once |-> FALSE]
    /\ procs = [k \in {} |-> 0]
    /\ panicked = FALSE
    /\ hist = [received |-> 0, shutdownCalls |-> 0,
               closes |-> 0, closesNow |-> 0, spawned |-> 0, completed |-> 0,
               spawnedLate |-> FALSE]

Init ==
    /\ \E sc \in Scenarios :
          /\ pf = sc.pf
          /\ flagConcurrency = sc.flagConcurrency
          /\ args = sc.args
          /\ flagPort = sc.flagPort
          /\ osHaveSigTerm \in sc.platforms
          /\ flagRestart \in sc.restarts
    /\ Start

(* ------------------------------------------------------------------ *)
(* Forego.SignalShutdown                                               *)
(* ------------------------------------------------------------------ *)

\* sync.Once.Do(func() { close(ch) }) on a Once whose state is done and a
\* channel whose state is closed: closing a closed channel panics.
OnceClose(done, closed) ==
    IF done THEN [done |-> TRUE, closed |-> closed, panic |-> FALSE, ran |-> 0]
    ELSE [done |-> TRUE, closed |-> TRUE, panic |-> closed, ran |-> 1]

\* A close without the Once around it.
BareClose(done, closed) ==
    [done |-> done, closed |-> TRUE, panic |-> closed, ran |-> 1]

\* f.shutdown.Do(func() { close(f.teardown) }), without the Once.
SignalShutdownBare == BareClose(shutdown, teardown)

SignalShutdown == OnceClose(shutdown, teardown)

(* ------------------------------------------------------------------ *)
(* Forego.startProcess: the part that runs in the caller               *)
(* ------------------------------------------------------------------ *)

\* A port keyed by the replica, not the template.
PortByReplica(idx, procNum) == flagPort + (procNum * 100)

\* port := flagPort + (idx * 100)
Port(idx, procNum) == flagPort + (idx * 100)

\* A display name numbered from zero.
ProcNameFromZero(idx, procNum) == pf[idx + 1] \o <<".">> \o Itoa(procNum)

\* procName := fmt.Sprint(proc.Name, ".", procNum+1)
ProcName(idx, procNum) == pf[idx + 1] \o <<".">> \o Itoa(procNum + 1)

\* The process as started: its display name and its environment's PORT.
NewProcess(idx, procNum) ==
    [name |-> ProcName(idx, procNum), PORT |-> Itoa(Port(idx, procNum))]

\* A replica's first launch: the child runs, its coordinator is at the select.
FirstLaunch(idx, procNum) ==
    [pc |-> "select", child |-> "running", termSent |-> 0, killSent |-> 0,
     timer |-> FALSE, launches |-> <<NewProcess(idx, procNum)>>,
     returning |-> 0, live |-> 1, exit |-> "none",
     via |-> "none"]

\* ps.Start(), the waiter goroutine and the coordinator goroutine, on procs.
startProcess(ps, idx, procNum) ==
    LET r == <<idx, procNum>> IN
    IF r \in DOMAIN ps
    THEN [ps EXCEPT ![r] = [@ EXCEPT !.pc = "select", !.child = "running",
                                     !.timer = FALSE, !.exit = "none", !.via = "none",
                                     !.launches = Append(@, NewProcess(idx, procNum)),
                                     !.live = @ + 1]]
    ELSE [k \in DOMAIN ps \cup {r} |->
            IF k = r THEN FirstLaunch(idx, procNum) ELSE ps[k]]

\* f.wg.Add(1)
WgAdd(n) == n + 1

\* A Done that leaves the counter alone.
WgDoneLost(n) == n

\* f.wg.Done()
WgDone(n) == n - 1

(* ------------------------------------------------------------------ *)
(* runStart                                                            *)
(* ------------------------------------------------------------------ *)

\* A handleError that goes on after an error.
handleErrorIgnored(err, next) == next

\* handleError(err): a configuration error ends the run.
handleError(err, next) == IF err THEN "fatal" ELSE next

\* pf.HasProcess(name)
HasProcess(name) == \E k \in 1..Len(pf) : pf[k] = name

\* singleton: args[0] when there is one, else "".
singleton == IF Len(args) > 0 THEN args[1] ELSE <<>>

\* numProcs of the entry at idx (zero-based).
numProcs(idx) ==
    IF MapHas(concurrency, pf[idx + 1]) THEN MapGet(concurrency, pf[idx + 1]) ELSE 1

\* A loop body without the filter.
SelectedAll(idx) == TRUE

\* The filter of the inner loop's body.
Selected(idx) == singleton = <<>> \/ singleton = pf[idx + 1]

\* The next iteration of the two loops, from <<idx, i>> on, whose body calls
\* startProcess; <<Len(pf), 0>> when the loops end without one.
RECURSIVE NextLaunch(_, _)
NextLaunch(idx, i) ==
    IF idx >= Len(pf) THEN <<Len(pf), 0>>
    ELSE IF i >= numProcs(idx) \/ ~Selected(idx) THEN NextLaunch(idx + 1, 0)
    ELSE <<idx, i>>

\* Everything of runStart before the loops.
RunStartSetup ==
    /\ mainPc = "start"
    /\ LET parsed == parseConcurrency(flagConcurrency) IN
       IF parsed.err
       THEN /\ mainPc' = handleError(TRUE, "fanout")
            /\ UNCHANGED <<concurrency, monitor>>
       ELSE /\ concurrency' = parsed.concurrency
            /\ monitor' = [monitor EXCEPT !.listening = TRUE]
            /\ mainPc' = IF Len(args) > 0 /\ ~HasProcess(args[1])
                         THEN "fatal" ELSE handleError(FALSE, "fanout")
    /\ UNCHANGED <<config, cur, shutdown, teardown, teardownNow, wg, procs,
                   panicked, hist>>

\* One iteration of the loops that starts a process.
FanOutStart ==
    /\ mainPc = "fanout"
    /\ Running
    /\ LET nxt == NextLaunch(cur[1], cur[2]) IN
       /\ nxt[1] < Len(pf)
       /\ procs' = startProcess(procs, nxt[1], nxt[2])
       /\ wg' = WgAdd(wg)
       /\ cur' = <<nxt[1], nxt[2] + 1>>
    /\ hist' = [hist EXCEPT !.spawned = @ + 1,
                            !.spawnedLate = @ \/ teardown]
    /\ UNCHANGED <<config, mainPc, concurrency, shutdown, teardown, teardownNow,
                   monitor, panicked>>

\* The loops end; runStart goes on to <-f.teardown.
FanOutEnd ==
    /\ mainPc = "fanout"
    /\ Running
    /\ NextLaunch(cur[1], cur[2])[1] >= Len(pf)
    /\ mainPc' = "waitTeardown"
    /\ cur' = <<Len(pf), 0>>
    /\ UNCHANGED <<config, concurrency, shutdown, teardown, teardownNow, wg,
                   monitor, procs, panicked, hist>>

\* <-f.teardown
MainTeardown ==
    /\ mainPc = "waitTeardown"
    /\ Running
    /\ teardown
    /\ mainPc' = "wgWait"
    /\ UNCHANGED <<config, concurrency, cur, shutdown, teardown, teardownNow, wg,
                   monitor, procs, panicked, hist>>

\* f.wg.Wait() is passed when the counter is zero.
WaitReleased(n) == n = 0

\* f.wg.Wait(), and runStart returns.
MainWait ==
    /\ mainPc = "wgWait"
    /\ Running
    /\ WaitReleased(wg)
    /\ mainPc' = "returned"
    /\ UNCHANGED <<config, concurrency, cur, shutdown, teardown, teardownNow, wg,
                   monitor, procs, panicked, hist>>

(* ------------------------------------------------------------------ *)
(* Forego.monitorInterrupt                                             *)
(* ------------------------------------------------------------------ *)

\* The operator presses ctrl-c.  signal.Notify does not block: the signal is
\* dropped when handler (capacity 1) is full, which changes nothing.  The
\* model counts the interrupts the monitor receives.
Interrupt ==
    /\ Running
    /\ monitor.listening
    /\ hist.received + monitor.handler < MaxInterrupts
    /\ monitor' = [monitor EXCEPT !.handler = 1]
    /\ UNCHANGED <<config, mainPc, concurrency, cur, shutdown, teardown,
                   teardownNow, wg, procs, panicked, hist>>

\* An urgent close that does not look at first.
UrgentCloseAlways(first, done, closed) == OnceClose(done, closed)

\* if !first { once.Do(func() { close(f.teardownNow) }) }
UrgentClose(first, done, closed) ==
    IF ~first THEN OnceClose(done, closed)
    ELSE [done |-> done, closed |-> closed, panic |-> FALSE, ran |-> 0]

\* One iteration of "for sig := range handler".
MonitorInterrupt ==
    /\ Running
    /\ monitor.handler > 0
    /\ LET now == UrgentClose(monitor.first, monitor.once, teardownNow)
           sd == IF now.panic
                 THEN [done |-> shutdown, closed |-> teardown, panic |-> TRUE, ran |-> 0]
                 ELSE SignalShutdown
       IN  /\ teardownNow' = now.closed
           /\ shutdown' = sd.done
           /\ teardown' = sd.closed
           /\ panicked' = sd.panic
           /\ monitor' = [monitor EXCEPT !.handler = 0,
                                         !.first = IF sd.panic THEN @ ELSE FALSE,
                                         !.once = now.done]
           /\ hist' = [hist EXCEPT !.received = @ + 1,
                                   !.shutdownCalls = @ + (IF now.panic THEN 0 ELSE 1),
                                   !.closes = @ + sd.ran,
                                   !.closesNow = @ + now.ran]
    /\ UNCHANGED <<config, mainPc, concurrency, cur, wg, procs>>

(* ------------------------------------------------------------------ *)
(* Forego.startProcess: the coordinator goroutine                      *)
(* ------------------------------------------------------------------ *)

\* finished is closed once ps.Wait() has returned.
Finished(p) == p.child = "reaped"

\* A coordinator that ends without the deferred wait.
MayCompleteAtOnce(p) == TRUE

\* defer func() { <-finished }(): the coordinator may end once finished is closed.
MayComplete(p) == Finished(p)

\* A relaunch that does not wait for the exit of the process it replaces.
CoordRestartEarly(r) ==
    /\ Running
    /\ r \in DOMAIN procs
    /\ procs[r].pc = "select"
    /\ flagRestart
    /\ procs' = [startProcess(procs, r[1], r[2]) EXCEPT ![r].returning = @ + 1]
    /\ wg' = WgAdd(wg)
    /\ hist' = [hist EXCEPT !.spawned = @ + 1,
                            !.spawnedLate = @ \/ teardown]
    /\ UNCHANGED <<config, mainPc, concurrency, cur, shutdown, teardown,
                   teardownNow, monitor, panicked>>

\* A relaunch that also trips the graceful barrier.
CoordRestartAndShutdown(r) ==
    /\ Running
    /\ r \in DOMAIN procs
    /\ procs[r].pc = "select"
    /\ Finished(procs[r])
    /\ flagRestart
    /\ procs' = [startProcess(procs, r[1], r[2]) EXCEPT ![r].returning = @ + 1]
    /\ wg' = WgAdd(wg)
    /\ shutdown' = SignalShutdown.done
    /\ teardown' = SignalShutdown.closed
    /\ hist' = [hist EXCEPT !.spawned = @ + 1, !.shutdownCalls = @ + 1,
                            !.closes = @ + SignalShutdown.ran,
                            !.spawnedLate = @ \/ teardown]
    /\ UNCHANGED <<config, mainPc, concurrency, cur, teardownNow, monitor, panicked>>

\* case <-finished: with restart, start the replica again and return.
CoordRestart(r) ==
    /\ Running
    /\ r \in DOMAIN procs
    /\ procs[r].pc = "select"
    /\ Finished(procs[r])
    /\ flagRestart
    /\ procs' = [startProcess(procs, r[1], r[2]) EXCEPT ![r].returning = @ + 1]
    /\ wg' = WgAdd(wg)
    /\ hist' = [hist EXCEPT !.spawned = @ + 1,
                            !.spawnedLate = @ \/ teardown]
    /\ UNCHANGED <<config, mainPc, concurrency, cur, shutdown, teardown,
                   teardownNow, monitor, panicked>>

\* A coordinator that just returns when its process exits.
CoordExitedSilent(r) ==
    /\ Running
    /\ r \in DOMAIN procs
    /\ procs[r].pc = "select"
    /\ Finished(procs[r])
    /\ ~flagRestart
    /\ procs' = [procs EXCEPT ![r].pc = "exiting", ![r].via = "exited"]
    /\ UNCHANGED <<config, mainPc, concurrency, cur, shutdown, teardown,
                   teardownNow, wg, monitor, panicked, hist>>

\* case <-finished: without restart, f.SignalShutdown().
CoordExited(r) ==
    /\ Running
    /\ r \in DOMAIN procs
    /\ procs[r].pc = "select"
    /\ Finished(procs[r])
    /\ ~flagRestart
    /\ LET sd == SignalShutdown IN
       /\ shutdown' = sd.done
       /\ teardown' = sd.closed
       /\ panicked' = sd.panic
       /\ hist' = [hist EXCEPT !.shutdownCalls = @ + 1, !.closes = @ + sd.ran]
    /\ procs' = [procs EXCEPT ![r].pc = "exiting", ![r].via = "exited"]
    /\ UNCHANGED <<config, mainPc, concurrency, cur, teardownNow, wg, monitor>>

\* A teardown case that sends SIGTERM whatever the platform.
CoordTeardownTermFirst(r) ==
    /\ Running
    /\ r \in DOMAIN procs
    /\ procs[r].pc = "select"
    /\ teardown
    /\ procs' = [procs EXCEPT ![r].termSent = @ + 1, ![r].pc = "grace"]
    /\ UNCHANGED <<config, mainPc, concurrency, cur, shutdown, teardown,
                   teardownNow, wg, monitor, panicked, hist>>

\* case <-f.teardown: kill at once without SIGTERM, else SIGTERM and the
\* grace timer (time.After) starts.
CoordTeardown(r) ==
    /\ Running
    /\ r \in DOMAIN procs
    /\ procs[r].pc = "select"
    /\ teardown
    /\ procs' = IF ~osHaveSigTerm
                THEN [procs EXCEPT ![r].killSent = @ + 1, ![r].pc = "exiting",
                                   ![r].via = "kill"]
                ELSE [procs EXCEPT ![r].termSent = @ + 1, ![r].pc = "grace"]
    /\ UNCHANGED <<config, mainPc, concurrency, cur, shutdown, teardown,
                   teardownNow, wg, monitor, panicked, hist>>

\* An inner select without the timer case.
TimerNever(p) == FALSE

\* <-time.After(shutdownGraceTime) is ready once the grace period has elapsed.
TimerReady(p) == p.timer

\* case <-time.After(shutdownGraceTime): ps.SendSigKill()
GraceTimer(r) ==
    /\ Running
    /\ r \in DOMAIN procs
    /\ procs[r].pc = "grace"
    /\ TimerReady(procs[r])
    /\ procs' = [procs EXCEPT ![r].killSent = @ + 1, ![r].pc = "exiting",
                              ![r].timer = FALSE, ![r].via = "timer"]
    /\ UNCHANGED <<config, mainPc, concurrency, cur, shutdown, teardown,
                   teardownNow, wg, monitor, panicked, hist>>

\* An inner select without the urgent case.
UrgentNever == FALSE

\* <-f.teardownNow is ready once the channel is closed.
UrgentReady == teardownNow

\* case <-f.teardownNow: ps.SendSigKill()
GraceNow(r) ==
    /\ Running
    /\ r \in DOMAIN procs
    /\ procs[r].pc = "grace"
    /\ UrgentReady
    /\ procs' = [procs EXCEPT ![r].killSent = @ + 1, ![r].pc = "exiting",
                              ![r].timer = FALSE, ![r].via = "urgent"]
    /\ UNCHANGED <<config, mainPc, concurrency, cur, shutdown, teardown,
                   teardownNow, wg, monitor, panicked, hist>>

\* An inner select whose finished case sends the kill too.
GraceFinishedKills(r) ==
    /\ Running
    /\ r \in DOMAIN procs
    /\ procs[r].pc = "grace"
    /\ Finished(procs[r])
    /\ procs' = [procs EXCEPT ![r].killSent = @ + 1, ![r].pc = "exiting",
                              ![r].timer = FALSE, ![r].via = "finished"]
    /\ UNCHANGED <<config, mainPc, concurrency, cur, shutdown, teardown,
                   teardownNow, wg, monitor, panicked, hist>>

\* case <-finished: (inner select) nothing to do.
GraceFinished(r) ==
    /\ Running
    /\ r \in DOMAIN procs
    /\ procs[r].pc = "grace"
    /\ Finished(procs[r])
    /\ procs' = [procs EXCEPT ![r].pc = "exiting", ![r].timer = FALSE,
                              ![r].via = "finished"]
    /\ UNCHANGED <<config, mainPc, concurrency, cur, shutdown, teardown,
                   teardownNow, wg, monitor, panicked, hist>>

\* The deferred calls of the replica's current coordinator: <-finished, f.wg.Done().
CoordDone(r) ==
    /\ Running
    /\ r \in DOMAIN procs
    /\ procs[r].pc = "exiting"
    /\ MayComplete(procs[r])
    /\ procs' = [procs EXCEPT ![r].pc = "done"]
    /\ wg' = WgDone(wg)
    /\ hist' = [hist EXCEPT !.completed = @ + 1]
    /\ UNCHANGED <<config, mainPc, concurrency, cur, shutdown, teardown,
                   teardownNow, monitor, panicked>>

\* The deferred calls of a coordinator that has relaunched its replica: its own
\* process's finished is closed, so only f.wg.Done() is left.
RelaunchDone(r) ==
    /\ Running
    /\ r \in DOMAIN procs
    /\ procs[r].returning > 0
    /\ procs' = [procs EXCEPT ![r].returning = @ - 1]
    /\ wg' = WgDone(wg)
    /\ hist' = [hist EXCEPT !.completed = @ + 1]
    /\ UNCHANGED <<config, mainPc, concurrency, cur, shutdown, teardown,
                   teardownNow, monitor, panicked>>

(* ------------------------------------------------------------------ *)
(* The child processes, the waiter goroutines and the grace timers     *)
(* ------------------------------------------------------------------ *)

\* A child may always exit once signalled; unsignalled, with restart, only
\* while the replica has relaunches left in the model.
MayExit(p) ==
    \/ p.termSent + p.killSent > 0
    \/ ~flagRestart
    \/ Len(p.launches) <= MaxRestarts

\* How an exit at this moment came about: "own" before any signal; "killed"
\* after a kill; after SIGTERM alone, "grace" with the grace timer not elapsed
\* and the urgent barrier not tripped, else "afterTimer", "afterUrgent" or
\* "afterBoth".
ExitKind(p) ==
    IF p.killSent > 0 THEN "killed"
    ELSE IF p.termSent = 0 THEN "own"
    ELSE IF p.timer /\ teardownNow THEN "afterBoth"
    ELSE IF p.timer THEN "afterTimer"
    ELSE IF teardownNow THEN "afterUrgent"
    ELSE "grace"

\* The child exits (on its own, or from a signal): it is a zombie until reaped.
ChildExit(r) ==
    /\ r \in DOMAIN procs
    /\ procs[r].child = "running"
    /\ MayExit(procs[r])
    /\ procs' = [procs EXCEPT ![r].child = "zombie", ![r].live = @ - 1,
                              ![r].exit = ExitKind(procs[r])]
    /\ UNCHANGED <<config, mainPc, concurrency, cur, shutdown, teardown,
                   teardownNow, wg, monitor, panicked, hist>>

\* go func() { defer close(finished); ps.Wait() }()
WaitReturns(r) ==
    /\ Running
    /\ r \in DOMAIN procs
    /\ procs[r].child = "zombie"
    /\ procs' = [procs EXCEPT ![r].child = "reaped"]
    /\ UNCHANGED <<config, mainPc, concurrency, cur, shutdown, teardown,
                   teardownNow, wg, monitor, panicked, hist>>

\* shutdownGraceTime passes: the channel of time.After becomes ready.
TimerFire(r) ==
    /\ Running
    /\ r \in DOMAIN procs
    /\ procs[r].pc = "grace"
    /\ ~procs[r].timer
    /\ procs' = [procs EXCEPT ![r].timer = TRUE]
    /\ UNCHANGED <<config, mainPc, concurrency, cur, shutdown, teardown,
                   teardownNow, wg, monitor, panicked, hist>>

(* ------------------------------------------------------------------ *)
(* Specifications                                                      *)
(* ------------------------------------------------------------------ *)

\* The replicas a run of the scenarios can have, and those of LiveScenarios.
ReplicaKeys == (0..1) \X (0..1)

LiveKeys == (0..1) \X {0}

\* The outer select of a coordinator: one ready case is taken.
OuterSelect(r) == CoordRestart(r) \/ CoordExited(r) \/ CoordTeardown(r)

\* The inner select.
InnerSelect(r) == GraceTimer(r) \/ GraceNow(r) \/ GraceFinished(r)

Next ==
    \/ RunStartSetup
    \/ FanOutStart
    \/ FanOutEnd
    \/ MainTeardown
    \/ MainWait
    \/ Interrupt
    \/ MonitorInterrupt
    \/ \E r \in ReplicaKeys : CoordRestart(r)
    \/ \E r \in ReplicaKeys : CoordExited(r)
    \/ \E r \in ReplicaKeys : CoordTeardown(r)
    \/ \E r \in ReplicaKeys : GraceTimer(r)
    \/ \E r \in ReplicaKeys : GraceNow(r)
    \/ \E r \in ReplicaKeys : GraceFinished(r)
    \/ \E r \in ReplicaKeys : CoordDone(r)
    \/ \E r \in ReplicaKeys : RelaunchDone(r)
    \/ \E r \in ReplicaKeys : ChildExit(r)
    \/ \E r \in ReplicaKeys : WaitReturns(r)
    \/ \E r \in ReplicaKeys : TimerFire(r)

Spec == Init /\ [][Next]_vars

\* The scheduler runs every goroutine that can take a step; a child that was
\* sent a kill exits.  Nothing makes the operator interrupt, a child exit on
\* its own or obey SIGTERM.
Scheduling ==
    /\ WF_vars(RunStartSetup)
    /\ WF_vars(FanOutStart)
    /\ WF_vars(FanOutEnd)
    /\ WF_vars(MainTeardown)
    /\ WF_vars(MainWait)
    /\ WF_vars(MonitorInterrupt)
    /\ \A r \in LiveKeys :
          /\ WF_vars(OuterSelect(r))
          /\ WF_vars(InnerSelect(r))
          /\ WF_vars(CoordDone(r))
          /\ WF_vars(RelaunchDone(r))
          /\ WF_vars(WaitReturns(r))
          /\ WF_vars(ChildExit(r) /\ procs[r].killSent > 0)

\* shutdownGraceTime passes for every running grace timer.
TimePasses == \A r \in LiveKeys : WF_vars(TimerFire(r))

\* The runs the liveness claims are checked on: two replicas without restart,
\* two with restart on a platform without SIGTERM, one with both, and a
\* malformed -c.
LiveScenarios ==
    { Scenario(<<web, worker>>, cEmpty, <<>>, DefaultPort, BOOLEAN, {FALSE}),
      Scenario(<<web, worker>>, cEmpty, <<>>, DefaultPort, {FALSE}, {TRUE}),
      Scenario(<<web, worker>>, cSpacedZero, <<>>, DefaultPort, {TRUE}, {TRUE}),
      Scenario(<<web, worker>>, cNoEquals, <<>>, DefaultPort, {TRUE}, {FALSE}) }

LiveInit ==
    /\ \E sc \in LiveScenarios :
          /\ pf = sc.pf
          /\ flagConcurrency = sc.flagConcurrency
          /\ args = sc.args
          /\ flagPort = sc.flagPort
          /\ osHaveSigTerm \in sc.platforms
          /\ flagRestart \in sc.restarts
    /\ Start

\* Fair scheduling, and time passes.
FairSpec == LiveInit /\ [][Next]_vars /\ Scheduling /\ TimePasses

\* Fair scheduling alone: the grace period may last for ever.
UrgentSpec == LiveInit /\ [][Next]_vars /\ Scheduling

(* ------------------------------------------------------------------ *)
(* Claims                                                              *)
(* ------------------------------------------------------------------ *)

\* Every coordination task has completed and no child is alive or unreaped.
AllComplete ==
    /\ hist.completed = hist.spawned
    /\ \A r \in DOMAIN procs :
          /\ procs[r].pc = "done"
          /\ procs[r].returning = 0
          /\ procs[r].child = "reaped"
          /\ procs[r].live = 0

\* C1: runStart returns from its final wait only when every coordination task
\* ever spawned (relaunches included) has completed and no supervised child is
\* alive or unreaped.
C1_ReturnOnlyWhenAllComplete == mainPc = "returned" => AllComplete

\* runStart has returned from a run with two replicas, one of them relaunched.
C1_Witness ==
    /\ mainPc = "returned"
    /\ flagRestart
    /\ Cardinality(DOMAIN procs) >= 2
    /\ \E r \in DOMAIN procs : Len(procs[r].launches) > 1

\* A replica's child was stopped by its coordinator or exited on its own; its
\* coordinator is done and the child reaped.
Stopped(s) ==
    /\ procs[s].pc = "done"
    /\ procs[s].child = "reaped"
    /\ procs[s].exit = "own" \/ procs[s].termSent + procs[s].killSent > 0

\* C2: with restart disabled, once any process has exited on its own, the
\* graceful barrier is tripped, every replica that did not exit on its own is
\* stopped by its coordinator (terminate or kill sent, child reaped,
\* coordinator done), and runStart returns.
C2_UnplannedExitTearsDown ==
    \A r \in LiveKeys :
        (~flagRestart /\ r \in DOMAIN procs /\ procs[r].exit = "own")
            ~> (teardown /\ mainPc = "returned" /\ \A s \in DOMAIN procs : Stopped(s))

\* One replica exited on its own with the barrier untripped by any interrupt;
\* its sibling was sent SIGTERM and then a kill, and the group is torn down.
C2_Witness ==
    /\ ~flagRestart
    /\ hist.received = 0
    /\ mainPc = "returned"
    /\ \E r, s \in DOMAIN procs :
          /\ procs[r].exit = "own"
          /\ procs[r].via = "exited"
          /\ procs[s].termSent = 1
          /\ procs[s].killSent = 1
          /\ Stopped(s)

\* Signals sent to a replica's processes so far.
Signals(p) == p.termSent + p.killSent

\* C3 as stated: with restart enabled, a process that exited on its own is
\* always followed by a new instance of its replica: its coordinator is at the
\* outer select, about to relaunch it, never on the teardown path.
C3_Original ==
    \A r \in DOMAIN procs :
        (flagRestart /\ procs[r].exit = "own") => procs[r].pc = "select"

\* C3, amended: with restart enabled, (1) every instance of a replica has the
\* same display name and port; (2) only the interrupt monitor trips the
\* graceful barrier, never an exit; (3) a replica is signalled only under the
\* tripped barrier and relaunched only after its own process exited on its
\* own; (4) a process that exited on its own is followed by a new instance of
\* its replica, unless its coordinator acts on the tripped barrier first.
C3_RestartRelaunches ==
    /\ [](flagRestart =>
            \A r \in DOMAIN procs : \A k \in 1..Len(procs[r].launches) :
                procs[r].launches[k] = procs[r].launches[1])
    /\ [][(flagRestart /\ ~teardown /\ teardown') => hist'.received > hist.received]_vars
    /\ [][flagRestart =>
            \A s \in DOMAIN procs :
                /\ Signals(procs'[s]) > Signals(procs[s]) => teardown
                /\ Len(procs'[s].launches) > Len(procs[s].launches)
                      => procs[s].exit = "own" /\ Finished(procs[s])]_vars
    /\ \A r \in LiveKeys : \A n \in 1..MaxRestarts :
          (/\ flagRestart
           /\ r \in DOMAIN procs
           /\ procs[r].exit = "own"
           /\ Len(procs[r].launches) = n)
              ~> (/\ r \in DOMAIN procs
                  /\ \/ Len(procs[r].launches) > n
                     \/ teardown /\ procs[r].pc # "select")

\* A replica was relaunched with the barrier untripped while its sibling's
\* first process runs on, unsignalled.
C3_Witness ==
    /\ flagRestart
    /\ ~teardown
    /\ \E r, s \in DOMAIN procs :
          /\ r # s
          /\ Len(procs[r].launches) = 2
          /\ procs[r].launches[2] = procs[r].launches[1]
          /\ Len(procs[s].launches) = 1
          /\ procs[s].child = "running"
          /\ Signals(procs[s]) = 0

\* C4: however many times SignalShutdown is called, by coordinators and by the
\* monitor, the barrier is closed once, no call panics, and the state after
\* any number of calls is the state after one.
C4_ShutdownOnce ==
    /\ ~panicked
    /\ hist.closes <= 1
    /\ hist.shutdownCalls >= 1 => (teardown /\ shutdown /\ hist.closes = 1)
    /\ hist.shutdownCalls = 0 => (~teardown /\ ~shutdown /\ hist.closes = 0)

\* Two coordinators and the monitor have all called SignalShutdown.
C4_Witness ==
    /\ hist.shutdownCalls >= 3
    /\ hist.received >= 1
    /\ hist.closes = 1
    /\ \E r, s \in DOMAIN procs :
          r # s /\ procs[r].via = "exited" /\ procs[s].via = "exited"

\* C5: every interrupt the monitor receives calls SignalShutdown; the first
\* does not trip the urgent barrier; from the second on the urgent barrier is
\* tripped, and it is closed once however many follow.
C5_InterruptEscalation ==
    /\ ~panicked
    /\ hist.shutdownCalls >= hist.received
    /\ hist.received >= 1 => teardown
    /\ teardownNow <=> hist.received >= 2
    /\ hist.closesNow = (IF hist.received >= 2 THEN 1 ELSE 0)

\* Three interrupts were received and a coordinator called SignalShutdown too;
\* the urgent barrier was closed once.
C5_Witness ==
    /\ hist.received >= 3
    /\ hist.closesNow = 1
    /\ teardownNow
    /\ hist.shutdownCalls > hist.received

\* r's processes were sent a kill.
Killed(r) == r \in DOMAIN procs /\ procs[r].killSent > 0

\* r's processes were sent exactly one kill.
KilledOnce(r) == r \in DOMAIN procs /\ procs[r].killSent = 1

\* r's coordinator took the inner select's finished case: it saw the exit first.
SawExit(r) == r \in DOMAIN procs /\ procs[r].via = "finished"

\* The urgent barrier is tripped while r's coordinator waits out the grace
\* period and r's child runs.
UrgentInGrace(r) ==
    /\ teardownNow
    /\ r \in DOMAIN procs
    /\ procs[r].pc = "grace"
    /\ procs[r].child = "running"

\* C6 as stated, in the form a finite run refutes: the coordinator of a child
\* that ran in its grace period when the urgent barrier was tripped does not
\* leave the grace period without sending it a kill.
C6_Original ==
    \A r \in DOMAIN procs :
        (/\ procs[r].exit \in {"afterUrgent", "afterBoth"}
         /\ procs[r].pc \in {"exiting", "done"}) => procs[r].killSent > 0

\* C6, amended: the second interrupt received trips the urgent barrier, and a
\* replica in its grace period with its child running is then sent a kill
\* without the grace timer, unless its coordinator observes the child's exit
\* first.
C6_UrgentKills ==
    /\ [](hist.received >= 2 => teardownNow)
    /\ \A r \in LiveKeys :
          UrgentInGrace(r) ~> (Killed(r) \/ SawExit(r))

\* A coordinator took the urgent case and sent the kill.
C6_Witness ==
    /\ hist.received >= 2
    /\ \E r \in DOMAIN procs :
          procs[r].via = "urgent" /\ procs[r].termSent = 1 /\ procs[r].killSent = 1

\* The grace period has elapsed while r's child, sent SIGTERM, still runs.
GraceElapsed(r) ==
    /\ r \in DOMAIN procs
    /\ procs[r].pc = "grace"
    /\ procs[r].timer
    /\ procs[r].child = "running"

\* C7 as stated, in the form a finite run refutes: the coordinator of a child
\* that still ran when its grace period elapsed does not leave the grace
\* period without sending it exactly one kill.
C7_Original ==
    \A r \in DOMAIN procs :
        (/\ procs[r].exit \in {"afterTimer", "afterBoth"}
         /\ procs[r].pc \in {"exiting", "done"}) => procs[r].killSent = 1

\* C7, amended: no child is ever sent two kills; a coordinator that takes the
\* timer or the urgent case sends exactly one; and a child sent SIGTERM that
\* has not exited when the grace period elapses is sent exactly one kill,
\* unless its coordinator observes the child's exit first.
C7_KillOnce ==
    /\ [](\A r \in DOMAIN procs :
            /\ procs[r].killSent <= 1
            /\ procs[r].via \in {"timer", "urgent"} => procs[r].killSent = 1)
    /\ \A r \in LiveKeys :
          GraceElapsed(r) ~> (KilledOnce(r) \/ SawExit(r))

\* A coordinator took the timer case, with no interrupt at all, and sent the kill.
C7_Witness ==
    /\ osHaveSigTerm
    /\ hist.received = 0
    /\ \E r \in DOMAIN procs :
          procs[r].via = "timer" /\ procs[r].termSent = 1 /\ procs[r].killSent = 1

\* strconv.Atoi's value of a decimal string: an optional "-", then digits.
ParseDec(str) ==
    IF str # <<>> /\ Head(str) = "-" THEN 0 - DecValue(Tail(str), 0)
    ELSE DecValue(str, 0)

\* The sum over the templates from idx on of the replica counts as C8 defines
\* them: the concurrency entry, or 1 when the template has none.
RECURSIVE TotalRequested(_)
TotalRequested(idx) ==
    IF idx >= Len(pf) THEN 0
    ELSE (IF MapHas(concurrency, pf[idx + 1])
          THEN MapGet(concurrency, pf[idx + 1]) ELSE 1) + TotalRequested(idx + 1)

\* The fan-out loops have ended.
FannedOut == mainPc \in {"waitTeardown", "wgWait", "returned"}

\* C8: with no filter, the fan-out spawns exactly N coordination tasks, N the
\* sum of the templates' replica counts (concurrency entry, or 1), and the final
\* wait releases only once all of them have completed.
C8_Original ==
    (args = <<>> /\ FannedOut) =>
        /\ Cardinality(DOMAIN procs) = TotalRequested(0)
        /\ mainPc = "returned" => AllComplete

\* The display name and PORT of a launch of replica r are those C9 gives.
AsDerived(r, launch) ==
    LET name == pf[r[1] + 1]
        n == launch.name
    IN  /\ Len(n) > Len(name) + 1
        /\ SubSeq(n, 1, Len(name)) = name
        /\ n[Len(name) + 1] = "."
        /\ \A k \in (Len(name) + 2)..Len(n) : IsDigit(n[k])
        /\ n[Len(name) + 2] # "0"
        /\ ParseDec(SubSeq(n, Len(name) + 2, Len(n))) = r[2] + 1
        /\ \A k \in 1..Len(launch.PORT) : IsDigit(launch.PORT[k])
        /\ ParseDec(launch.PORT) = flagPort + r[1] * 100

\* C9: every process of replica (templateIndex, replicaIndex), relaunches
\* included, is started with PORT = basePort + templateIndex*100 and display
\* name templateName "." replicaIndex+1.
C9_PortAndName ==
    \A r \in DOMAIN procs : \A k \in 1..Len(procs[r].launches) :
        AsDerived(r, procs[r].launches[k])

\* The second replica of the second template runs, and a replica was relaunched.
C9_Witness ==
    /\ <<1, 1>> \in DOMAIN procs
    /\ procs[<<1, 1>>].launches[1].PORT = <<"8", "1", "8", "0">>
    /\ \E r \in DOMAIN procs : Len(procs[r].launches) > 1

\* The run of the example: -c web=2,worker=1, templates web and worker, port 5000.
Example ==
    /\ pf = <<web, worker>>
    /\ flagConcurrency = cExample
    /\ args = <<>>
    /\ flagPort = 5000

\* After the example's fan-out the replicas are exactly web.1, web.2 and
\* worker.1, started with the given PORTs.
ExampleYields(p1, p2, p3) ==
    /\ DOMAIN procs = {<<0, 0>>, <<0, 1>>, <<1, 0>>}
    /\ procs[<<0, 0>>].launches[1] = [name |-> web \o <<".", "1">>, PORT |-> p1]
    /\ procs[<<0, 1>>].launches[1] = [name |-> web \o <<".", "2">>, PORT |-> p2]
    /\ procs[<<1, 0>>].launches[1] = [name |-> worker \o <<".", "1">>, PORT |-> p3]

C11_Original ==
    \A r, s \in DOMAIN procs :
        (r # s /\ r[1] = s[1]) =>
            \A j \in 1..Len(procs[r].launches) : \A k \in 1..Len(procs[s].launches) :
                procs[r].launches[j].PORT # procs[s].launches[k].PORT

\* The (template, replicaIndex) pairs whose template's name equals the filter.
FilterPairs ==
    UNION { {<<idx, i>> : i \in 0..(numProcs(idx) - 1)} :
              idx \in {k \in 0..(Len(pf) - 1) : pf[k + 1] = singleton} }

\* C12: with a filter name given, a coordination task is spawned for a
\* (template, replicaIndex) pair if and only if the template's name equals the
\* filter: only such pairs are ever started, all of them once the fan-out has
\* ended, one launch each without restart; when no template matches, nothing
\* is launched at all.
C12_FilterSelects ==
    args # <<>> =>
        /\ DOMAIN procs \subseteq FilterPairs
        /\ FannedOut => DOMAIN procs = FilterPairs
        /\ (FannedOut /\ ~flagRestart) => hist.spawned = Cardinality(FilterPairs)
        /\ (\A k \in 1..Len(pf) : pf[k] # singleton) =>
              (DOMAIN procs = {} /\ hist.spawned = 0 /\ wg = 0)

\* The filter web has started both replicas of web and nothing of worker.
C12_Witness ==
    /\ args = <<web>>
    /\ FannedOut
    /\ DOMAIN procs = {<<0, 0>>, <<0, 1>>}
    /\ hist.spawned = 2

\* The malformed -c values of the runs: an empty value, an entry with no "=",
\* a value that is not an integer, an empty name.
Malformed == {cEmptyValue, cNoEquals, cNotANumber, cEmptyName}

\* C13: a malformed concurrency spec makes parseConcurrency return an error,
\* and a run whose spec does not parse ends with that error: it never gets
\* past the setup, the interrupt monitor never listens, no process is started
\* and no coordination task exists.
C13_MalformedRejected ==
    /\ flagConcurrency \in Malformed => parseConcurrency(flagConcurrency).err
    /\ parseConcurrency(flagConcurrency).err =>
          /\ mainPc \in {"start", "fatal"}
          /\ ~monitor.listening
          /\ monitor.handler = 0
          /\ DOMAIN procs = {}
          /\ wg = 0
          /\ hist.spawned = 0
          /\ hist.received = 0
          /\ ~teardown

\* The run of -c "web=,api=2" has ended with the error.
C13_Witness ==
    /\ flagConcurrency = cEmptyValue
    /\ mainPc = "fatal"
    /\ DOMAIN procs = {}

\* r's current coordinator completes in this step: its f.wg.Done() runs.
Completes(r) == procs[r].pc # "done" /\ procs'[r].pc = "done"

\* A coordinator of r that relaunched the replica completes in this step.
CompletesRelaunched(r) == procs'[r].returning < procs[r].returning

\* C14: a coordination task completes only after the process instance it
\* started has exited and been reaped.  A completed coordinator's child is
\* reaped and not alive; the coordinators that relaunched are no more than the
\* instances since replaced; a coordinator completes only with its instance
\* reaped; an instance is replaced only once reaped; and the WaitGroup's
\* counter only goes down by such a completion.
C14_DoneAfterReap ==
    /\ [](\A r \in DOMAIN procs :
            /\ procs[r].pc = "done" => (procs[r].child = "reaped" /\ procs[r].live = 0)
            /\ procs[r].returning <= Len(procs[r].launches) - 1)
    /\ [][\A r \in DOMAIN procs :
            /\ Completes(r) => Finished(procs[r])
            /\ Len(procs'[r].launches) > Len(procs[r].launches) => Finished(procs[r])
            /\ CompletesRelaunched(r) => Len(procs[r].launches) > 1]_vars
    /\ [][wg' < wg =>
            \E r \in DOMAIN procs : Completes(r) \/ CompletesRelaunched(r)]_vars

\* A replica was relaunched, then sent SIGTERM and, the grace period over, a
\* kill; all its coordinators have completed.
C14_Witness ==
    \E r \in DOMAIN procs :
        /\ procs[r].pc = "done"
        /\ procs[r].returning = 0
        /\ Len(procs[r].launches) >= 2
        /\ procs[r].via = "timer"
        /\ procs[r].killSent = 1
        /\ procs[r].child = "reaped"

C16_OneInstance ==
    /\ [](\A r \in DOMAIN procs :
            /\ procs[r].live <= 1
            /\ procs[r].live = 1 <=> procs[r].child = "running")
    /\ [][\A r \in DOMAIN procs :
            Len(procs'[r].launches) > Len(procs[r].launches) =>
                /\ procs[r].live = 0
                /\ Finished(procs[r])
                /\ procs'[r].live = 1]_vars

\* Two replicas have each been relaunched and each runs its one new instance.
C16_Witness ==
    /\ flagRestart
    /\ \E r, s \in DOMAIN procs :
          /\ r # s
          /\ Len(procs[r].launches) >= 2
          /\ Len(procs[s].launches) >= 2
          /\ procs[r].live = 1
          /\ procs[s].live = 1

\* r's child, sent SIGTERM, exited on its own with the grace timer not elapsed
\* and the urgent barrier not tripped.
ExitedInGrace(r) == procs[r].exit = "grace"

\* C17 as stated, for the case it names: a child that exited on its own in its
\* grace period, before the timer elapsed and before the urgent barrier was
\* tripped, is not sent a kill even if the urgent barrier is tripped before
\* its coordinator reacts (the coordinator does not take the timer case).
C17_Original ==
    \A r \in DOMAIN procs :
        (ExitedInGrace(r) /\ procs[r].via # "timer") => procs[r].killSent = 0

\* C17, amended: a coordinator that observes the exit of such a child (takes
\* the inner select's finished case) sends no kill and only completes; a kill
\* is sent to such a child only by a coordinator that took the timer or the
\* urgent case instead, which it can only with the timer elapsed or the urgent
\* barrier tripped after the exit.
C17_ExitObservedNoKill ==
    /\ [](\A r \in DOMAIN procs :
            ExitedInGrace(r) =>
                /\ procs[r].via = "finished" => procs[r].killSent = 0
                /\ procs[r].killSent > 0 => procs[r].via \in {"timer", "urgent"}
                /\ procs[r].killSent <= 1)
    /\ [][\A r \in DOMAIN procs :
            (ExitedInGrace(r) /\ procs'[r].killSent > procs[r].killSent) =>
                /\ procs[r].pc = "grace"
                /\ procs[r].timer \/ teardownNow]_vars

\* A child exited on its own in its grace period, the urgent barrier was
\* tripped after that, and its coordinator took the finished case: no kill.
C17_Witness ==
    /\ teardownNow
    /\ \E r \in DOMAIN procs :
          /\ ExitedInGrace(r)
          /\ procs[r].via = "finished"
          /\ procs[r].pc = "done"
          /\ procs[r].termSent = 1
          /\ procs[r].killSent = 0

\* r's coordinator leaves the outer select by the teardown case in this step.
ObservesTeardown(r) ==
    /\ procs[r].pc = "select"
    /\ procs'[r].pc # "select"
    /\ procs'[r].via # "exited"

\* C18: on a platform without SIGTERM, a coordinator that observes the
\* graceful barrier sends the kill in that very step: no SIGTERM is ever sent,
\* no coordinator waits in the grace period, no grace timer runs, a child is
\* sent at most one kill, and the coordinator completes only with the child
\* reaped.
C18_NoSigTermKillsAtOnce ==
    /\ [](~osHaveSigTerm =>
            \A r \in DOMAIN procs :
                /\ procs[r].termSent = 0
                /\ procs[r].pc # "grace"
                /\ ~procs[r].timer
                /\ procs[r].killSent <= 1
                /\ procs[r].killSent = 1 <=> procs[r].via = "kill"
                /\ procs[r].pc = "done" => procs[r].child = "reaped")
    /\ [][~osHaveSigTerm =>
            \A r \in DOMAIN procs :
                ObservesTeardown(r) =>
                    /\ teardown
                    /\ procs'[r].killSent = procs[r].killSent + 1
                    /\ procs'[r].via = "kill"
                    /\ procs'[r].pc = "exiting"]_vars

\* Without SIGTERM and after one interrupt, the urgent barrier untripped, a
\* running child was killed at once; its coordinator waited for the exit and
\* has completed.
C18_Witness ==
    /\ ~osHaveSigTerm
    /\ hist.received = 1
    /\ ~teardownNow
    /\ \E r \in DOMAIN procs :
          /\ procs[r].via = "kill"
          /\ procs[r].exit = "killed"
          /\ procs[r].killSent = 1
          /\ procs[r].termSent = 0
          /\ procs[r].pc = "done"
          /\ procs[r].child = "reaped"

\* C19 as stated: no process instance is launched once the graceful barrier
\* has been tripped.
C19_Original == ~hist.spawnedLate

\* The fan-out loop starts a replica in this step.
FanOutLaunch ==
    /\ mainPc = "fanout"
    /\ DOMAIN procs' # DOMAIN procs

\* A coordinator that took the exit of its process relaunches it in this step.
Relaunch ==
    /\ flagRestart
    /\ \E r \in DOMAIN procs :
          /\ Len(procs'[r].launches) > Len(procs[r].launches)
          /\ procs[r].pc = "select"
          /\ Finished(procs[r])
          /\ procs[r].exit = "own"

\* C19, amended: once the graceful barrier has been tripped, a process
\* instance is launched only for a replica still pending in the fan-out loop,
\* or as the relaunch, under restart, of a process that exited on its own and
\* whose coordinator took the exit and not the barrier; with the fan-out loop
\* ended and restart disabled, nothing is launched; and a coordinator that
\* has acted on the barrier launches nothing.
C19_LateLaunches ==
    /\ [][hist'.spawned > hist.spawned =>
            /\ hist'.spawned = hist.spawned + 1
            /\ FanOutLaunch \/ Relaunch]_vars
    /\ [][(teardown /\ FannedOut /\ ~flagRestart) =>
            hist'.spawned = hist.spawned]_vars
    /\ [][\A r \in DOMAIN procs :
            procs[r].pc # "select" =>
                Len(procs'[r].launches) = Len(procs[r].launches)]_vars
    /\ [](hist.spawnedLate => (teardown /\ hist.spawned > 0))

\* With restart enabled a process was launched after the trip, and the run
\* has ended with every replica relaunched.
C19_Witness ==
    /\ flagRestart
    /\ hist.spawnedLate
    /\ mainPc = "returned"
    /\ Cardinality(DOMAIN procs) = 2
    /\ \A r \in DOMAIN procs : Len(procs[r].launches) >= 2

\* C20: in every reachable state, if the urgent barrier is tripped then the
\* graceful barrier is tripped too.  The monitor closes teardownNow before it
\* calls SignalShutdown in the same iteration, so the claim also needs: the
\* urgent barrier is closed only in a step that starts with the graceful
\* barrier already closed, and a closed barrier stays closed.
C20_UrgentImpliesGraceful ==
    /\ [](teardownNow => teardown)
    /\ [][(~teardownNow /\ teardownNow') => teardown]_vars
    /\ [][(teardown => teardown') /\ (teardownNow => teardownNow')]_vars

\* Both barriers are tripped after two interrupts, and a coordinator whose
\* process exited has called SignalShutdown as well as the monitor.
C20_Witness ==
    /\ teardownNow
    /\ teardown
    /\ hist.received = 2
    /\ hist.shutdownCalls = 3
    /\ \E r \in DOMAIN procs : procs[r].via = "exited" /\ procs[r].pc = "done"

====
